---- MODULE Spec2Model ----
(***************************************************************************)
(* Client-side session / token lifecycle of the LLM_MODES frontend:        *)
(*   - tokenStorage   (frontend/src/services/authService.js, 14-87)        *)
(*   - authService request/response interceptors (same file, 89-153)       *)
(*   - authAPI        (same file, 155-311)                                 *)
(*   - useAuthStore   (frontend/src/stores/authStore.js)                   *)
(* The JavaScript event loop is modelled by atomic actions: one action is  *)
(* one macrotask (a user event, a network callback, a timer callback)      *)
(* together with the chain of promise continuations it runs.               *)
(* Time is counted in ticks of 15 minutes.                                 *)
(***************************************************************************)
EXTENDS Integers, FiniteSets, Sequences, Bags, TLC

\* ---------------------------------------------------------------- bounds
MaxOps == 2
MaxTok == 2
MaxTime == 1
MaxCalls == 3
RefreshLife == 0
AccessLife == 0
MaxList == 2
MaxTimers == 1

\* ------------------------------------------------------ program constants
\* setTimeout(..., 15 * 60 * 1000) in setAccessToken, in ticks of 15 minutes
TimerInterval == 1

VARIABLES ts, store, ops, loc, now, nextTok, calls, ev

vars == <<ts, store, ops, loc, now, nextTok, calls, ev>>

\* ------------------------------------------------------------ tokens
\* A token is what the client can see of it: an identity and the shape of
\* its payload ("exp": a JWT whose payload has a numeric exp claim).
Null == [id |-> 0, form |-> "null", exp |-> 0]

Jwt(n, e) == [id |-> n, form |-> "exp", exp |-> e]

\* authService.js 76-86.  undefined < number is false in JavaScript, so a
\* decodable payload without exp is reported as not expired.
isTokenExpired(token, t) ==
    CASE token.form = "null" -> TRUE
      [] token.form = "malformed" -> TRUE
      [] token.form = "noexp" -> FALSE
      [] OTHER -> token.exp < t

\* ------------------------------------------------------------ tokenStorage
\* ts.memAccess / ts.memRefresh : window.__app_tokens
\* ts.ssAccess                  : sessionStorage 'access_token'
\* ts.lsRefresh                 : localStorage 'refresh_token'
\* ts.timers                    : pending setTimeout callbacks of setAccessToken
EmptyTokens ==
    [memAccess |-> Null, memRefresh |-> Null, ssAccess |-> Null,
     lsRefresh |-> Null, timers |-> {}]

getAccessToken(s) ==
    IF s.memAccess # Null THEN s.memAccess ELSE s.ssAccess

setAccessToken(s, token, t) ==
    [s EXCEPT !.memAccess = token,
              !.ssAccess = token,
              !.timers = @ \cup {[tok |-> token.id, due |-> t + TimerInterval]}]

getRefreshToken(s) ==
    IF s.memRefresh # Null THEN s.memRefresh ELSE s.lsRefresh

setRefreshToken(s, token) ==
    [s EXCEPT !.memRefresh = token, !.lsRefresh = token]

clearAccessToken(s) ==
    [s EXCEPT !.memAccess = Null, !.ssAccess = Null]

\* clearTokens forgetting the backup storages
clearTokens_memoryOnly(s) ==
    [s EXCEPT !.memAccess = Null, !.memRefresh = Null]

clearTokens(s) ==
    [s EXCEPT !.memAccess = Null, !.memRefresh = Null,
              !.ssAccess = Null, !.lsRefresh = Null]

\* ------------------------------------------------------------ useAuthStore
NoUser == [id |-> 0, patched |-> FALSE]

\* the profile record GET /me answers with
Profile == [id |-> 1, patched |-> FALSE]

\* authStore.js 5-8
InitStore ==
    [user |-> NoUser, isAuthenticated |-> FALSE, isLoading |-> TRUE,
     error |-> "null"]

\* authStore.js 16: set({ user, isAuthenticated: true, isLoading: false })
initializeAuth_then(st, u) ==
    [st EXCEPT !.user = u, !.isAuthenticated = TRUE, !.isLoading = FALSE]

\* initializeAuth without its else branch
initializeAuth_noToken_skip(st) ==
    st

\* authStore.js 18: set({ isLoading: false })
initializeAuth_noToken(st) ==
    [st EXCEPT !.isLoading = FALSE]

\* initializeAuth's catch that leaves the loading flag
initializeAuth_catch_loading(st) ==
    [st EXCEPT !.user = NoUser, !.isAuthenticated = FALSE]

\* authStore.js 23
initializeAuth_catch(st) ==
    [st EXCEPT !.user = NoUser, !.isAuthenticated = FALSE, !.isLoading = FALSE]

\* authStore.js 29 and 69: set({ isLoading: true, error: null })
setLoading(st) ==
    [st EXCEPT !.isLoading = TRUE, !.error = "null"]

\* authStore.js 43 and 73
login_then(st, u) ==
    [st EXCEPT !.user = u, !.isAuthenticated = TRUE, !.isLoading = FALSE]

\* login's catch that leaves the loading flag
login_catch_keepLoading(st, msg) ==
    [st EXCEPT !.error = msg]

\* authStore.js 91: set({ error: errorMessage, isLoading: false })
login_catch(st, msg) ==
    [st EXCEPT !.error = msg, !.isLoading = FALSE]

\* register's catch that leaves the loading flag
register_catch_keepLoading(st, msg) ==
    [st EXCEPT !.error = msg]

\* authStore.js 62
register_catch(st, msg) ==
    [st EXCEPT !.error = msg, !.isLoading = FALSE]

\* logout's finally that forgets the flag
logout_finally_keepAuth(st) ==
    [st EXCEPT !.user = NoUser, !.error = "null"]

\* authStore.js 103
logout_finally(st) ==
    [st EXCEPT !.user = NoUser, !.isAuthenticated = FALSE, !.error = "null"]

\* authStore.js 111-116
updateUser(st) ==
    IF st.user # NoUser
    THEN [st EXCEPT !.user = [@ EXCEPT !.patched = TRUE]]
    ELSE st

\* authStore.js 108
clearError(st) ==
    [st EXCEPT !.error = "null"]

\* ------------------------------------------------------------ ProtectedRoute
\* the guard showing its children whenever the session is authenticated
ProtectedRoute_noSpinner(st) ==
    IF ~st.isAuthenticated THEN "Navigate" ELSE "children"

\* ProtectedRoute.jsx 14-29: what the guard renders for a store state
ProtectedRoute(st) ==
    IF st.isLoading THEN "spinner"
    ELSE IF ~st.isAuthenticated THEN "Navigate"
    ELSE "children"

\* ------------------------------------------------------------ authAPI
\* HTTP outcomes of the backend other than success; 0 is "no response"
\* (network failure or the 10 s timeout of authService.js 7).
FailStatuses == {0, 401, 422, 423, 429}

\* error.response.data.detail of a failure: absent, a string, or a list of
\* {msg} records (the validation errors of the backend)
NoDetail == [tag |-> "none", str |-> "", list |-> <<>>]

StringDetail(x) == [tag |-> "string", str |-> x, list |-> <<>>]

ListDetail(l) == [tag |-> "list", str |-> "", list |-> l]

DetailStrings == {"Invalid credentials"}

DetailMsgs == {[msg |-> "Email invalid"], [msg |-> "Password too short"]}

Details ==
    {NoDetail} \cup {StringDetail(x) : x \in DetailStrings}
        \cup {ListDetail(l) : l \in UNION {[1..n -> DetailMsgs] : n \in 0..MaxList}}

\* Array.prototype.join as authService.js 164 and 197 use it
RECURSIVE join(_, _)
join(l, sep) ==
    IF Len(l) = 0 THEN ""
    ELSE IF Len(l) = 1 THEN l[1]
    ELSE l[1] \o sep \o join(Tail(l), sep)

\* the normalisation without its array branch
detailMessage_noList(d, fallback) ==
    CASE d.tag = "string" /\ d.str # "" -> d.str
      [] OTHER -> fallback

\* authService.js 162-170 and 195-203: an absent or empty-string detail is
\* falsy and keeps the fallback, an array (even an empty one) is joined
detailMessage(d, fallback) ==
    CASE d.tag = "list" -> join([i \in 1..Len(d.list) |-> d.list[i].msg], ", ")
      [] d.tag = "string" /\ d.str # "" -> d.str
      [] OTHER -> fallback

\* authService.js 184-204: 423 and 429 are answered before detail is read
authAPI_login_message(s, d) ==
    CASE s = 423 -> "Account temporarily locked due to multiple failed attempts"
      [] s = 429 -> "Too many login attempts. Please try again later."
      [] OTHER -> detailMessage(d, "Login failed")

\* authService.js 160-171
authAPI_register_message(s, d) ==
    detailMessage(d, "Registration failed")

\* authService.js 225-227
authAPI_getCurrentUser_message(s, d) ==
    "Failed to get user information"

\* the message of the Error the authAPI layer throws for a failed call to ep
errorMessage(ep, s, d) ==
    CASE ep = "register" -> authAPI_register_message(s, d)
      [] ep = "login" -> authAPI_login_message(s, d)
      [] OTHER -> authAPI_getCurrentUser_message(s, d)

\* authStore.js 77-88: the caught value is an Error without response; an
\* empty message is falsy and keeps the fallback
login_errorMessage(m) ==
    IF m # "" THEN m ELSE "Login failed"

\* authStore.js 47-59
register_errorMessage(m) ==
    IF m # "" THEN m ELSE "Registration failed"

\* authAPI.logout dropping only the access token
authAPI_logout_finally_accessOnly(s) ==
    clearAccessToken(s)

\* authService.js 216-218: finally { tokenStorage.clearTokens() }
authAPI_logout_finally(s) ==
    clearTokens(s)

\* authAPI.login keeping only the access token
authAPI_login_store_accessOnly(s, n, t) ==
    setAccessToken(s, Jwt(n, t + AccessLife), t)

\* authService.js 178-181: store the pair the backend answered with
authAPI_login_store(s, n, t) ==
    setRefreshToken(setAccessToken(s, Jwt(n, t + AccessLife), t),
                    Jwt(n, t + RefreshLife))

\* ------------------------------------------------------------ operations
\* One record per call of a store / authAPI operation that is awaiting the
\* network.  ep is the endpoint of the request in flight, stage where that
\* request is ("sent", "refresh": waiting for POST /refresh, "resent"),
\* retry is originalRequest._retry, hdr the token id in its Authorization
\* header, nref / nresend count the refresh calls and re-issues made for it,
\* rtok is the refresh token in the body of its pending refresh call.
Idle ==
    [kind |-> "idle", ep |-> "none", stage |-> "none", retry |-> FALSE,
     hdr |-> 0, nref |-> 0, nresend |-> 0, rtok |-> Null]

\* authService.js 90-97: the request interceptor reads the token at send time
Request(kind, ep, s) ==
    [kind |-> kind, ep |-> ep, stage |-> "sent", retry |-> FALSE,
     hdr |-> getAccessToken(s).id, nref |-> 0, nresend |-> 0, rtok |-> Null]

Settled(tsv, stv, opv, outcome, result) ==
    [ts |-> tsv, store |-> stv, op |-> opv, outcome |-> outcome,
     result |-> result]

\* continuation of the caller when the transport resolves (2xx)
Fulfilled(o, s, st, n, t) ==
    CASE o.kind = "initializeAuth" ->
           Settled(s, initializeAuth_then(st, Profile), Idle, "resolved", "none")
      [] o.kind \in {"login", "register"} /\ o.ep = "register" ->
           Settled(s, st, Request(o.kind, "login", s), "pending", "none")
      [] o.kind \in {"login", "register"} /\ o.ep = "login" ->
           LET s1 == authAPI_login_store(s, n, t)
           IN Settled(s1, st, Request(o.kind, "me", s1), "pending", "none")
      [] o.kind \in {"login", "register"} /\ o.ep = "me" ->
           Settled(s, login_then(st, Profile), Idle, "resolved", "success")
      [] o.kind = "logout" ->
           Settled(authAPI_logout_finally(s), logout_finally(st), Idle,
                   "resolved", "none")
      [] OTHER ->
           Settled(s, st, Idle, "resolved", "none")

\* continuation of the caller when the transport rejects with status s and
\* detail d
Rejected(o, s, d, tsv, st) ==
    CASE o.kind = "initializeAuth" ->
           Settled(clearTokens(tsv), initializeAuth_catch(st), Idle,
                   "resolved", "none")
      [] o.kind = "login" ->
           Settled(tsv,
                   login_catch(st, login_errorMessage(errorMessage(o.ep, s, d))),
                   Idle, "resolved", "failure")
      [] o.kind = "register" ->
           Settled(tsv,
                   register_catch(st,
                                  register_errorMessage(errorMessage(o.ep, s, d))),
                   Idle, "resolved", "failure")
      [] o.kind = "logout" ->
           Settled(authAPI_logout_finally(tsv), logout_finally(st), Idle,
                   "resolved", "none")
      [] OTHER ->
           Settled(tsv, st, Idle, "rejected", "none")

\* ------------------------------------------------------------ interceptor
\* the interceptor refreshing on a locked account as well
shouldRefresh_locked(s, retry) ==
    s \in {401, 423} /\ ~retry

\* the interceptor taking a missing response for a 401
shouldRefresh_noResponse(s, retry) ==
    s \in {0, 401} /\ ~retry

\* the interceptor without the _retry marker
shouldRefresh_ignoreRetry(s, retry) ==
    s = 401

\* authService.js 108: error.response?.status === 401 && !originalRequest._retry
shouldRefresh(s, retry) ==
    s = 401 /\ ~retry

\* authService.js 112-113
hasUsableRefresh(tsv, t) ==
    LET refreshToken == getRefreshToken(tsv)
    IN refreshToken # Null /\ ~isTokenExpired(refreshToken, t)

\* the re-issue sent with the header the original request had
refreshSucceeded_oldHeader(o, tsv, n, t) ==
    LET s1 == setRefreshToken(setAccessToken(tsv, Jwt(n, t + AccessLife), t),
                              Jwt(n, t + RefreshLife))
    IN [ts |-> s1,
        op |-> [o EXCEPT !.stage = "resent", !.nresend = @ + 1,
                         !.rtok = Null]]

\* authService.js 121-127: store the new pair, re-issue the original request
refreshSucceeded(o, tsv, n, t) ==
    LET s1 == setRefreshToken(setAccessToken(tsv, Jwt(n, t + AccessLife), t),
                              Jwt(n, t + RefreshLife))
    IN [ts |-> s1,
        op |-> [o EXCEPT !.stage = "resent", !.hdr = getAccessToken(s1).id,
                         !.nresend = @ + 1, !.rtok = Null]]

\* the rejection of the re-issued request caught by the refresh catch block
retryRejected_caught(tsv, l) ==
    [ts |-> clearTokens(tsv),
     loc |-> IF l.path # "/auth" THEN [l EXCEPT !.navPending = TRUE] ELSE l]

\* authService.js 127: return authService(originalRequest) is not awaited
\* inside the try, so the rejection of the re-issued request passes the
\* catch of 129-138 by and leaves tokens and location alone
retryRejected(tsv, l) ==
    [ts |-> tsv, loc |-> l]

\* the redirect without the pathname check
redirectExpired_always(l) ==
    [l EXCEPT !.navPending = TRUE]

\* authService.js 134-136: window.location.href = '/auth?expired=true'
redirectExpired(l) ==
    IF l.path # "/auth" THEN [l EXCEPT !.navPending = TRUE] ELSE l

\* the refresh call sent through the intercepted transport: its own 401
\* starts another refresh
refreshFailed_intercepted(o, s, d, tsv, st) ==
    IF s = 401 /\ getRefreshToken(tsv) # Null
    THEN Settled(tsv, st, [o EXCEPT !.nref = @ + 1], "pending", "none")
    ELSE Rejected(o, s, d, clearTokens(tsv), st)

\* authService.js 115-119 and 129-133: the refresh call is made with plain
\* axios, so its failure lands in the catch: clearTokens, then the
\* rejection reaches the caller
refreshFailed(o, s, d, tsv, st) ==
    Rejected(o, s, d, clearTokens(tsv), st)

\* ------------------------------------------------------------ entry points
\* authStore.js 11-19, up to the first await
initializeAuth_start(tsv, st) ==
    IF getAccessToken(tsv) # Null
    THEN Settled(tsv, st, Request("initializeAuth", "me", tsv), "pending", "none")
    ELSE Settled(tsv, initializeAuth_noToken(st), Idle, "resolved", "none")

\* authStore.js 68-71 with authService.js 175-177, up to the first await
login_start(tsv, st) ==
    Settled(tsv, setLoading(st), Request("login", "login", tsv),
            "pending", "none")

\* authStore.js 28-32 with authService.js 156-158, up to the first await
register_start(tsv, st) ==
    Settled(tsv, setLoading(st), Request("register", "register", tsv),
            "pending", "none")

\* authService.js 245-247: a bare call through the transport
forgotPassword_start(tsv, st) ==
    Settled(tsv, st, Request("forgotPassword", "forgot-password", tsv),
            "pending", "none")

\* authStore.js 97-105 with authService.js 208-219, up to the first await
logout_start(tsv, st) ==
    IF getRefreshToken(tsv) # Null
    THEN Settled(tsv, st, Request("logout", "logout", tsv), "pending", "none")
    ELSE Settled(authAPI_logout_finally(tsv), logout_finally(st), Idle,
                 "resolved", "none")

\* ------------------------------------------------------------ state
InFlight == BagToSet(ops)

Add(o) == IF o = Idle THEN ops ELSE ops (+) SetToBag({o})

Remove(o) == ops (-) SetToBag({o})

\* what the last step did: which handler ran (act), for which operation and
\* request, on which response (status, detail), with which token, and what
\* the caller got
NoEv ==
    [act |-> "none", kind |-> "none", ep |-> "none", status |-> 0,
     detail |-> NoDetail, token |-> Null, outcome |-> "none",
     result |-> "none"]

Ev(act, o, s, d, r) ==
    [NoEv EXCEPT !.act = act, !.kind = o.kind, !.ep = o.ep, !.status = s,
                 !.detail = d, !.token = o.rtok, !.outcome = r.outcome,
                 !.result = r.result]

InitLoc ==
    [path |-> "/auth", navPending |-> FALSE, mounted |-> FALSE]

Init ==
    /\ ts = EmptyTokens
    /\ store = InitStore
    /\ ops = EmptyBag
    /\ loc \in {[InitLoc EXCEPT !.path = p] : p \in {"/auth", "/home"}}
    /\ now = 0
    /\ nextTok = 1
    /\ calls = 0
    /\ ev = NoEv

\* ------------------------------------------------------------ actions
\* start of a call whose synchronous part ends in r; calls counts the user
\* events of a run (operation calls and document loads), capped by MaxCalls
Begin(act, kind, r) ==
    /\ calls < MaxCalls
    /\ calls' = calls + 1
    /\ r.op # Idle => BagCardinality(ops) < MaxOps
    /\ ts' = r.ts
    /\ store' = r.store
    /\ ops' = Add(r.op)
    /\ ev' = [NoEv EXCEPT !.act = act, !.kind = kind, !.outcome = r.outcome,
                          !.result = r.result]
    /\ UNCHANGED <<loc, now, nextTok>>

\* App.js 11-13: the mount effect calls initializeAuth()
AppMount ==
    LET r == initializeAuth_start(ts, store)
    IN /\ ~loc.mounted
       /\ ts' = r.ts
       /\ store' = r.store
       /\ ops' = Add(r.op)
       /\ loc' = [loc EXCEPT !.mounted = TRUE]
       /\ ev' = [NoEv EXCEPT !.act = "start", !.kind = "initializeAuth",
                             !.outcome = r.outcome]
       /\ UNCHANGED <<now, nextTok, calls>>

\* ProtectedRoute.jsx 8-12
GuardInitializeAuth ==
    /\ loc.mounted
    /\ loc.path = "/home"
    /\ ~store.isAuthenticated /\ ~store.isLoading
    /\ Begin("start", "initializeAuth", initializeAuth_start(ts, store))

\* authStore.js 68-71: login(credentials)
Login ==
    /\ loc.mounted
    /\ Begin("start", "login", login_start(ts, store))

\* authStore.js 28-32: register(userData)
Register ==
    /\ loc.mounted
    /\ Begin("start", "register", register_start(ts, store))

\* authStore.js 97-99: logout()
Logout ==
    /\ loc.mounted
    /\ Begin("start", "logout", logout_start(ts, store))

\* authService.js 245-247: authAPI.forgotPassword(email), a bare transport call
ForgotPassword ==
    /\ loc.mounted
    /\ Begin("start", "forgotPassword", forgotPassword_start(ts, store))

UpdateUser ==
    /\ loc.mounted
    /\ store' = updateUser(store)
    /\ ev' = NoEv
    /\ UNCHANGED <<ts, ops, loc, now, nextTok, calls>>

ClearError ==
    /\ loc.mounted
    /\ store' = clearError(store)
    /\ ev' = NoEv
    /\ UNCHANGED <<ts, ops, loc, now, nextTok, calls>>

\* the caller's continuation r replaces the in-flight record o
Finish(act, o, s, d, r) ==
    /\ ts' = r.ts
    /\ store' = r.store
    /\ ops' = IF r.op = Idle THEN Remove(o) ELSE Remove(o) (+) SetToBag({r.op})
    /\ ev' = Ev(act, o, s, d, r)

\* authService.js 103: a 2xx response passes through to the caller
RespondOk ==
    \E o \in InFlight :
        /\ loc.mounted
        /\ o.stage \in {"sent", "resent"}
        /\ o.ep = "login" => nextTok <= MaxTok
        /\ Finish("ok", o, 200, NoDetail, Fulfilled(o, ts, store, nextTok, now))
        /\ nextTok' = IF o.ep = "login" THEN nextTok + 1 ELSE nextTok
        /\ UNCHANGED <<loc, now, calls>>

\* authService.js 104-152: the response interceptor's error handler, up to
\* the refresh call or to the rejection, for a failure whose detail is in D
\* (a failure without response, status 0, has none)
RespondFailWith(D) ==
    \E o \in InFlight, s \in FailStatuses, d \in D :
        /\ o.stage \in {"sent", "resent"}
        /\ s = 0 => d = NoDetail
        /\ IF shouldRefresh(s, o.retry) /\ hasUsableRefresh(ts, now)
           THEN /\ ops' = Remove(o) (+)
                          SetToBag({[o EXCEPT !.stage = "refresh", !.retry = TRUE,
                                              !.nref = @ + 1,
                                              !.rtok = getRefreshToken(ts)]})
                /\ ev' = [NoEv EXCEPT !.act = "refreshSent", !.kind = o.kind,
                                      !.ep = o.ep, !.status = s,
                                      !.detail = d, !.outcome = "pending"]
                /\ UNCHANGED <<ts, store, loc>>
           ELSE LET k == IF o.stage = "resent" THEN retryRejected(ts, loc)
                         ELSE [ts |-> ts, loc |-> loc]
                IN /\ Finish(CASE shouldRefresh(s, o.retry) -> "noRefresh"
                                [] s = 401 -> "retried401"
                                [] OTHER -> "reject",
                              o, s, d, Rejected(o, s, d, k.ts, store))
                   /\ loc' = k.loc
        /\ UNCHANGED <<now, nextTok, calls>>

\* the backend's failures carry no detail
RespondFail ==
    /\ loc.mounted
    /\ RespondFailWith({NoDetail})

\* the backend's failures carry a detail
RespondFailDetail ==
    /\ loc.mounted
    /\ RespondFailWith(Details)

\* authService.js 121-127: POST /refresh answered with a new pair
RefreshOk ==
    \E o \in InFlight :
        /\ loc.mounted
        /\ o.stage = "refresh"
        /\ nextTok <= MaxTok
        /\ LET r == refreshSucceeded(o, ts, nextTok, now)
           IN /\ ts' = r.ts
              /\ ops' = Remove(o) (+) SetToBag({r.op})
              /\ ev' = [NoEv EXCEPT !.act = "resent", !.kind = o.kind,
                                    !.ep = o.ep, !.status = 200,
                                    !.outcome = "pending"]
        /\ nextTok' = nextTok + 1
        /\ UNCHANGED <<store, loc, now, calls>>

\* authService.js 129-138: POST /refresh failed, with a detail in D
RefreshFailWith(D) ==
    \E o \in InFlight, s \in FailStatuses, d \in D :
        /\ o.stage = "refresh"
        /\ s = 0 => d = NoDetail
        /\ Finish("refreshFailed", o, s, d, refreshFailed(o, s, d, ts, store))
        /\ loc' = redirectExpired(loc)
        /\ UNCHANGED <<now, nextTok, calls>>

\* the backend's failures carry no detail
RefreshFail ==
    /\ loc.mounted
    /\ RefreshFailWith({NoDetail})

\* the backend's failures carry a detail
RefreshFailDetail ==
    /\ loc.mounted
    /\ RefreshFailWith(Details)

\* authService.js 35-37: a setTimeout callback of setAccessToken comes due
TimerFire ==
    \E t \in ts.timers :
        /\ loc.mounted
        /\ t.due <= now
        /\ ts' = [clearAccessToken(ts) EXCEPT !.timers = @ \ {t}]
        /\ ev' = [NoEv EXCEPT !.act = "timer", !.status = t.tok]
        /\ UNCHANGED <<store, ops, loc, now, nextTok, calls>>

\* time passes; a due timer callback runs before the clock moves on
Tick ==
    /\ loc.mounted
    /\ now < MaxTime
    /\ \A t \in ts.timers : t.due > now
    /\ now' = now + 1
    /\ ev' = NoEv
    /\ UNCHANGED <<ts, store, ops, loc, nextTok, calls>>

\* client-side route change (react-router navigate / <Navigate>)
Navigate ==
    \E p \in {"/auth", "/home"} :
        /\ loc.mounted
        /\ p # loc.path
        /\ loc' = [loc EXCEPT !.path = p]
        /\ ev' = NoEv
        /\ UNCHANGED <<ts, store, ops, now, nextTok, calls>>

\* a new document is loaded (the forced navigation of authService.js 135
\* commits, or the user reloads): module state is rebuilt, the storages stay
PageLoad ==
    /\ loc.mounted
    /\ calls < MaxCalls
    /\ calls' = calls + 1
    /\ ts' = [ts EXCEPT !.memAccess = Null, !.memRefresh = Null, !.timers = {}]
    /\ store' = InitStore
    /\ ops' = EmptyBag
    /\ loc' = IF loc.navPending
              THEN InitLoc
              ELSE [loc EXCEPT !.mounted = FALSE]
    /\ ev' = NoEv
    /\ UNCHANGED <<now, nextTok>>

Next ==
    \/ AppMount
    \/ GuardInitializeAuth
    \/ Login
    \/ Register
    \/ Logout
    \/ ForgotPassword
    \/ UpdateUser
    \/ ClearError
    \/ RespondOk
    \/ RespondFail
    \/ RefreshOk
    \/ RefreshFail
    \/ TimerFire
    \/ Tick
    \/ Navigate
    \/ PageLoad

Spec == Init /\ [][Next]_vars

\* ------------------------------------------------- failures with a detail
\* login and register against a backend whose failures carry a detail
NextDetail ==
    \/ AppMount
    \/ Login
    \/ Register
    \/ ClearError
    \/ RespondOk
    \/ RespondFailDetail
    \/ RefreshOk
    \/ RefreshFailDetail

SpecDetail == Init /\ [][NextDetail]_vars

\* ------------------------------------------------------------ progress
\* authService.js 5-7: a request sent through authService that has got no
\* response is ended by its 10 s timeout (a failure without response)
RequestTimeout ==
    /\ RespondFail
    /\ ev'.status = 0

NextLive ==
    \/ AppMount
    \/ GuardInitializeAuth
    \/ Login
    \/ Register
    \/ Logout
    \/ RespondOk
    \/ RespondFail
    \/ RefreshOk
    \/ RefreshFail

\* The timeout of a request sent through authService is a timer of the
\* client: it fires if the request stays without response.  Responses are
\* up to the backend, and the refresh call (authService.js 115-119, plain
\* axios.post without a timeout option) has no timer behind it.
SpecLive == Init /\ [][NextLive]_vars /\ WF_vars(RequestTimeout)

\* ------------------------------------------------------- tokenStorage alone
\* tokenStorage driven through its methods from any content of its slots.
\* Tokens a caller can hand in or a storage can hold: strings that are not
\* JWTs, JWTs whose payload has no exp, JWTs with an exp.
Malformed == [id |-> -1, form |-> "malformed", exp |-> 0]

NoExp == [id |-> -2, form |-> "noexp", exp |-> 0]

TokenInputs ==
    {Null, Malformed, NoExp} \cup {Jwt(e + 1, e) : e \in 0..MaxTime}

InitStorage ==
    /\ ts \in {[memAccess |-> a, memRefresh |-> r, ssAccess |-> b,
                 lsRefresh |-> l, timers |-> tm] :
                   a \in TokenInputs, r \in TokenInputs, b \in TokenInputs,
                   l \in TokenInputs,
                   tm \in {{}, {[tok |-> 1, due |-> TimerInterval]}}}
    /\ store = InitStore
    /\ ops = EmptyBag
    /\ loc = [InitLoc EXCEPT !.mounted = TRUE]
    /\ now = 0
    /\ nextTok = 1
    /\ calls = 0
    /\ ev = NoEv

\* a call of a tokenStorage method that leaves the storage as s; token is
\* its argument or, for the clear methods, the access token read before
StorageCall(act, token, s) ==
    /\ ts' = s
    /\ ev' = [NoEv EXCEPT !.act = act, !.token = token]
    /\ UNCHANGED <<store, ops, loc, now, nextTok, calls>>

Call_setAccessToken ==
    \E token \in TokenInputs \ {Null} :
        /\ loc.mounted
        /\ Cardinality(ts.timers) < MaxTimers
        /\ StorageCall("setAccessToken", token, setAccessToken(ts, token, now))

Call_setRefreshToken ==
    \E token \in TokenInputs \ {Null} :
        /\ loc.mounted
        /\ StorageCall("setRefreshToken", token, setRefreshToken(ts, token))

Call_clearAccessToken ==
    /\ loc.mounted
    /\ StorageCall("clearAccessToken", getAccessToken(ts), clearAccessToken(ts))

Call_clearTokens ==
    /\ loc.mounted
    /\ StorageCall("clearTokens", getAccessToken(ts), clearTokens(ts))

\* authService.js 76-86 applied to a token at the current time
Call_isTokenExpired ==
    \E token \in TokenInputs :
        /\ loc.mounted
        /\ ev' = [NoEv EXCEPT !.act = "isTokenExpired", !.token = token,
                              !.outcome = IF isTokenExpired(token, now)
                                          THEN "expired" ELSE "valid"]
        /\ UNCHANGED <<ts, store, ops, loc, now, nextTok, calls>>

NextStorage ==
    \/ Call_setAccessToken
    \/ Call_setRefreshToken
    \/ Call_clearAccessToken
    \/ Call_clearTokens
    \/ Call_isTokenExpired
    \/ TimerFire
    \/ Tick

SpecStorage == InitStorage /\ [][NextStorage]_vars

\* ------------------------------------------------------------ chat store
\* part_000 (useChatStore): createChat 47-58, fetchChats 80-92, sendMessage
\* 140-168 read tokenStorage.getAccessToken() themselves, give up when it
\* is empty, and otherwise send it as Bearer token with plain axios.
ChatOps == {"createChat", "fetchChats", "sendMessage"}

ChatRequest ==
    \E c \in ChatOps :
        /\ loc.mounted
        /\ calls < MaxCalls
        /\ calls' = calls + 1
        /\ LET token == getAccessToken(ts)
           IN ev' = [NoEv EXCEPT !.act = IF token # Null THEN "chatSent"
                                         ELSE "chatNoToken",
                                 !.kind = c, !.token = token]
        /\ UNCHANGED <<ts, store, ops, loc, now, nextTok>>

NextChat ==
    \/ AppMount
    \/ Login
    \/ Logout
    \/ RespondOk
    \/ RespondFail
    \/ RefreshOk
    \/ RefreshFail
    \/ TimerFire
    \/ Tick
    \/ PageLoad
    \/ ChatRequest

SpecChat == Init /\ [][NextChat]_vars

TypeOK ==
    /\ BagCardinality(ops) <= MaxOps
    /\ now \in 0..MaxTime
    /\ nextTok \in 1..(MaxTok + 1)
    /\ store.isAuthenticated \in BOOLEAN

\* ------------------------------------------------------------ properties
NoTokens == getAccessToken(ts) = Null /\ getRefreshToken(ts) = Null

RefreshCalls ==
    BagCardinality([o \in {x \in InFlight : x.stage = "refresh"} |-> ops[o]])

\* C1: requests that receive 401 concurrently while a usable refresh token
\* is stored share one refresh call: never more than one POST /refresh is
\* in flight.
C1_SingleRefresh ==
    RefreshCalls <= 1

\* C2: when the interceptor gets a 401 and the refresh token is absent or
\* expired, it leaves the caller rejected with both tokens cleared.
C2_NoRefreshClearsTokens ==
    ev.act = "noRefresh" => NoTokens

\* C3: an auto-clear timer removes the access token only when the interval
\* since that token's own setAccessToken has elapsed (its own timer is due).
C3_NoStaleTimer ==
    [][(ev'.act = "timer" /\ getAccessToken(ts) # Null)
          => \E t \in ts.timers :
                 t.tok = getAccessToken(ts).id /\ t.due <= now]_vars

\* C4: a request is refreshed for at most once and re-issued at most once;
\* a re-issued request never goes back to the refresh stage.
C4_OneRefreshOneRetry ==
    \A o \in InFlight :
        /\ o.nref <= 1
        /\ o.nresend <= 1
        /\ o.stage = "refresh" => o.nresend = 0
        /\ o.stage = "resent" => o.retry

C4_Witness ==
    ev.act = "retried401"

\* C5: a failed refresh call clears both tokens, ends the original call
\* unsuccessfully, and forces navigation to /auth?expired=true exactly when
\* the current path is not /auth.
C5_RefreshFailure ==
    [][ev'.act = "refreshFailed"
          => /\ getAccessToken(ts') = Null
             /\ getRefreshToken(ts') = Null
             /\ ev'.outcome \in {"resolved", "rejected"}
             /\ ev'.result # "success"
             /\ BagCardinality(ops') < BagCardinality(ops)
             /\ loc' = IF loc.path # "/auth"
                       THEN [loc EXCEPT !.navPending = TRUE]
                       ELSE loc]_vars

C5_Witness ==
    ev.act = "refreshFailed" /\ loc.path # "/auth" /\ loc.navPending

\* C6: isAuthenticated implies a user record is present.
C6_AuthenticatedHasUser ==
    store.isAuthenticated => store.user # NoUser

C6_Witness ==
    store.isAuthenticated /\ store.user.patched

\* C7: when logout() completes, the session is unauthenticated with no user
\* and no token is stored, whatever became of the backend call.
C7_LogoutClears ==
    (ev.kind = "logout" /\ ev.outcome = "resolved")
        => ~store.isAuthenticated /\ store.user = NoUser /\ NoTokens

C7_Witness ==
    ev.kind = "logout" /\ ev.outcome = "resolved" /\ ev.act = "reject"
        /\ ev.status = 0

\* C8: after an unrecoverable refresh failure the session is not left
\* Authenticated (a pending forced navigation rebuilds the session anyway).
C8_FailureEndsSession ==
    (ev.act \in {"noRefresh", "refreshFailed"} /\ ~loc.navPending)
        => ~store.isAuthenticated

\* C9: initializeAuth() called with no stored access token sends nothing and
\* leaves the session unauthenticated and not loading.
C9_InitWithoutToken ==
    [][(ev'.act = "start" /\ ev'.kind = "initializeAuth"
           /\ getAccessToken(ts) = Null)
          => /\ ops' = ops
             /\ ~store'.isAuthenticated
             /\ ~store'.isLoading]_vars

C9_Witness ==
    ev.act = "start" /\ ev.kind = "initializeAuth" /\ ev.outcome = "resolved"
        /\ ~store.isLoading

\* C10: initializeAuth() whose profile fetch fails resolves with the session
\* unauthenticated, not loading, and both tokens cleared.
C10_InitFailureDegrades ==
    (ev.kind = "initializeAuth"
        /\ ev.act \in {"reject", "noRefresh", "retried401", "refreshFailed"})
        => /\ ev.outcome = "resolved"
           /\ ~store.isAuthenticated
           /\ store.user = NoUser
           /\ ~store.isLoading
           /\ NoTokens

C10_Witness ==
    ev.kind = "initializeAuth" /\ ev.act = "reject" /\ ev.outcome = "resolved"

\* the labels of the steps of the response interceptor's error handler on a
\* response to a request it sent (the refresh call's own failure is
\* "refreshFailed")
InterceptActs == {"refreshSent", "noRefresh", "retried401", "reject"}

FailActs == InterceptActs \cup {"refreshFailed"}

AuthKinds == {"initializeAuth", "login", "register", "logout"}

\* C11 (as claimed): login() against a backend that answers a token pair and
\* then a profile stores both tokens before the profile request is sent,
\* ends with isAuthenticated = true, user = the profile, isLoading = false,
\* error = null, and no step of a login() before the profile answer sets
\* isAuthenticated.
C11_LoginSuccess ==
    [][/\ (ev'.kind = "login" /\ ev'.act = "ok" /\ ev'.ep = "login")
             => /\ getAccessToken(ts').id = nextTok
                /\ getRefreshToken(ts').id = nextTok
                /\ \E o \in BagToSet(ops') :
                       o.kind = "login" /\ o.ep = "me" /\ o.hdr = nextTok
       /\ (ev'.kind = "login" /\ ev'.act = "ok" /\ ev'.ep = "me")
             => /\ store' = [user |-> Profile, isAuthenticated |-> TRUE,
                             isLoading |-> FALSE, error |-> "null"]
                /\ ev'.result = "success"
       /\ (ev'.kind = "login" /\ ~(ev'.act = "ok" /\ ev'.ep = "me"))
             => (store'.isAuthenticated => store.isAuthenticated)]_vars

\* C11 (amended): as above, except that the success step leaves error as it
\* is; login() set it to null when it started, and only a login or register
\* that failed in between can have changed it.
C11_LoginSuccess_Amended ==
    [][/\ (ev'.kind = "login" /\ ev'.act = "start")
             => store'.error = "null"
       /\ (ev'.kind = "login" /\ ev'.act = "ok" /\ ev'.ep = "login")
             => /\ getAccessToken(ts').id = nextTok
                /\ getRefreshToken(ts').id = nextTok
                /\ \E o \in BagToSet(ops') :
                       o.kind = "login" /\ o.ep = "me" /\ o.hdr = nextTok
       /\ (ev'.kind = "login" /\ ev'.act = "ok" /\ ev'.ep = "me")
             => /\ store' = [user |-> Profile, isAuthenticated |-> TRUE,
                             isLoading |-> FALSE, error |-> store.error]
                /\ ev'.result = "success"
       /\ (ev'.kind = "login" /\ ~(ev'.act = "ok" /\ ev'.ep = "me"))
             => (store'.isAuthenticated => store.isAuthenticated)]_vars

C11_Witness ==
    /\ ev.kind = "login" /\ ev.act = "ok" /\ ev.ep = "me"
    /\ ev.result = "success"
    /\ store.isAuthenticated /\ store.user = Profile
    /\ getRefreshToken(ts) # Null

\* C12: when register()'s POST /register succeeded and its auto-login is
\* rejected, register resolves with a failure result whose error is the
\* message of authAPI.login's failure, isLoading is false, and
\* isAuthenticated is what it was (an unauthenticated session stays so).
C12_AutoLoginFailure ==
    [][(ev'.kind = "register" /\ ev'.ep = "login" /\ ev'.act \in FailActs
           /\ ev'.outcome # "pending")
          => /\ ev'.outcome = "resolved"
             /\ ev'.result = "failure"
             /\ store'.error =
                  CASE ev'.status = 423 ->
                         "Account temporarily locked due to multiple failed attempts"
                    [] ev'.status = 429 ->
                         "Too many login attempts. Please try again later."
                    [] OTHER -> "Login failed"
             /\ ~store'.isLoading
             /\ store'.isAuthenticated = store.isAuthenticated
             /\ store'.user = store.user]_vars

C12_Witness ==
    /\ ev.kind = "register" /\ ev.ep = "login" /\ ev.act = "reject"
    /\ ev.result = "failure"
    /\ ~store.isAuthenticated /\ ~store.isLoading
    /\ store.error = "Too many login attempts. Please try again later."

\* the phrases the code itself supplies
FixedPhrases ==
    {"Login failed", "Registration failed",
     "Account temporarily locked due to multiple failed attempts",
     "Too many login attempts. Please try again later.",
     "Failed to get user information"}

ExampleDetail ==
    ListDetail(<<[msg |-> "Email invalid"], [msg |-> "Password too short"]>>)

\* C13 (as claimed): after every failed login() or register(), the stored
\* error is the backend detail when that is a string, the msg fields joined
\* with ', ' when it is a (non-empty) list of {msg} records, and a fixed
\* phrase when there is no detail.
C13_ErrorNormalised ==
    (ev.kind \in {"login", "register"} /\ ev.result = "failure")
        => LET d == ev.detail
           IN /\ d.tag = "string" => store.error = d.str
              /\ d.tag = "list" /\ Len(d.list) > 0
                   => store.error =
                        join([i \in 1..Len(d.list) |-> d.list[i].msg], ", ")
              /\ d = ExampleDetail
                   => store.error = "Email invalid, Password too short"
              /\ d.tag = "none" => store.error \in FixedPhrases

\* C13 (amended): the rule holds for a failed POST /register and for a
\* failed POST /login whose status is neither 423 nor 429, with a non-empty
\* string or list; no detail or an empty list gives the fallback 'Login
\* failed' or 'Registration failed'; a 423 or 429 on POST /login gives the
\* lock or rate-limit phrase and a failed profile fetch gives 'Failed to
\* get user information', whatever the detail.
C13_ErrorNormalised_Amended ==
    (ev.kind \in {"login", "register"} /\ ev.result = "failure")
        => LET d == ev.detail
               fixed == ev.ep = "me" \/ (ev.ep = "login" /\ ev.status \in {423, 429})
           IN /\ ~fixed /\ d.tag = "string" => store.error = d.str
              /\ ~fixed /\ d.tag = "list" /\ Len(d.list) > 0
                   => store.error =
                        join([i \in 1..Len(d.list) |-> d.list[i].msg], ", ")
              /\ ~fixed /\ d = ExampleDetail
                   => store.error = "Email invalid, Password too short"
              /\ ~fixed /\ d.tag = "none"
                   => store.error = IF ev.ep = "login" THEN "Login failed"
                                    ELSE "Registration failed"
              /\ ~fixed /\ d.tag = "list" /\ Len(d.list) = 0
                   => store.error = IF ev.kind = "login" THEN "Login failed"
                                    ELSE "Registration failed"
              /\ ev.ep = "me" => store.error = "Failed to get user information"
              /\ ev.ep = "login" /\ ev.status = 423
                   => store.error =
                        "Account temporarily locked due to multiple failed attempts"
              /\ ev.ep = "login" /\ ev.status = 429
                   => store.error =
                        "Too many login attempts. Please try again later."

C13_Witness ==
    /\ ev.kind = "register" /\ ev.ep = "register" /\ ev.result = "failure"
    /\ ev.status = 422
    /\ ev.detail = ExampleDetail
    /\ store.error = "Email invalid, Password too short"

C16_LoadingHasOperation ==
    (loc.mounted /\ store.isLoading)
        => \E o \in InFlight : o.kind \in AuthKinds

C16_Witness ==
    /\ loc.mounted /\ store.isLoading
    /\ InFlight # {}
    /\ \A o \in InFlight : o.kind \in {"login", "register"}
    /\ ev.act \in FailActs

\* C17: whenever an initializeAuth, login, register or logout call is
\* outstanding, isLoading is true.
C17_OperationHasLoading ==
    (\E o \in InFlight : o.kind \in AuthKinds) => store.isLoading

\* C18: whatever the slots and timers held, after clearTokens() both
\* getAccessToken() and getRefreshToken() are null, and they stay null
\* until a set method is called.
C18_ClearTokensClears ==
    [][/\ ev'.act = "clearTokens" => NoTokens'
       /\ (NoTokens /\ ev'.act \notin {"setAccessToken", "setRefreshToken"})
             => NoTokens']_vars

C18_Witness ==
    /\ ev.act = "clearTokens"
    /\ ev.token # Null
    /\ ts.timers # {}
    /\ NoTokens

\* C19: isTokenExpired is true for an exp before the current time, false
\* for an exp after it, and true for an absent token, a malformed one and
\* one whose payload has no exp.
C19_ExpiredFailClosed ==
    ev.act = "isTokenExpired"
        => LET token == ev.token
           IN /\ (token.form = "exp" /\ token.exp < now)
                    => ev.outcome = "expired"
              /\ (token.form = "exp" /\ token.exp > now)
                    => ev.outcome = "valid"
              /\ token.form \in {"null", "malformed", "noexp"}
                    => ev.outcome = "expired"

\* C20: no chat-store operation sends a request whose access token is
\* expired by the client's own check.
C20_ChatTokenNotExpired ==
    ev.act = "chatSent" => ~isTokenExpired(ev.token, now)

\* C21: on the protected route the guard renders its children only when
\* isAuthenticated and not isLoading, the redirect to /auth whenever neither
\* isLoading nor isAuthenticated, and neither of them while isLoading.
C21_GuardRenders ==
    (loc.mounted /\ loc.path = "/home")
        => LET out == ProtectedRoute(store)
           IN /\ out = "children" => (store.isAuthenticated /\ ~store.isLoading)
              /\ (~store.isLoading /\ ~store.isAuthenticated) => out = "Navigate"
              /\ store.isLoading => out \notin {"children", "Navigate"}

C21_Witness ==
    /\ loc.mounted /\ loc.path = "/home"
    /\ store.isLoading /\ store.isAuthenticated
    /\ ProtectedRoute(store) = "spinner"

\* the requests that step ops -> ops' put in flight / took out of flight
Sent == {o \in BagToSet(ops') : CopiesIn(o, ops') > CopiesIn(o, ops)}

Gone == {o \in BagToSet(ops) : CopiesIn(o, ops') < CopiesIn(o, ops)}

\* C22: a request is re-issued only by the step in which its refresh call
\* succeeded; that step has stored the new pair, and the re-issued request
\* carries the new access token, not the one it was first sent with.
C22_ReissueAfterRefresh ==
    [][\A o \in Sent :
          o.stage = "resent"
             => /\ ev'.act = "resent"
                /\ \E p \in Gone : p.stage = "refresh" /\ p.hdr # o.hdr
                /\ getAccessToken(ts').id = nextTok
                /\ getRefreshToken(ts').id = nextTok
                /\ getAccessToken(ts) # getAccessToken(ts')
                /\ o.hdr = nextTok]_vars

C22_Witness ==
    /\ ev.act = "resent"
    /\ \E o \in InFlight :
           o.stage = "resent" /\ o.hdr = getAccessToken(ts).id /\ o.hdr > 1

\* C23: when a refresh call that carried a refresh token older than the
\* stored one is rejected with 401 while the request whose refresh stored
\* the current pair is re-issued, the stored pair stays and no redirect is
\* forced.
C23_StaleRefreshKeepsPair ==
    [][(/\ ev'.act = "refreshFailed"
        /\ ev'.status = 401
        /\ getRefreshToken(ts) # Null
        /\ ev'.token # Null
        /\ ev'.token.id < getRefreshToken(ts).id
        /\ \E p \in InFlight :
               p.stage = "resent" /\ p.hdr = getRefreshToken(ts).id)
          => /\ getRefreshToken(ts') = getRefreshToken(ts)
             /\ getAccessToken(ts') = getAccessToken(ts)
             /\ loc' = loc]_vars

\* C24: the failure of a refresh call, 401 included, starts no further
\* refresh: the call it was made for ends, and no request has more than one
\* refresh call made for it.
C24_NoNestedRefresh ==
    [][/\ ev'.act = "refreshFailed"
             => /\ RefreshCalls' = RefreshCalls - 1
                /\ Sent = {}
                /\ ev'.outcome \in {"resolved", "rejected"}
       /\ \A o \in BagToSet(ops') : o.nref <= 1]_vars

C24_Witness ==
    ev.act = "refreshFailed" /\ ev.status = 401 /\ ev.kind = "forgotPassword"
        /\ ev.outcome = "rejected"

\* C26: the step after a logout() completed, taken by a login, register or
\* initializeAuth call that was in flight at that moment, does not set
\* isAuthenticated.
C26_LogoutNotUndone ==
    [][(/\ ev.kind = "logout" /\ ev.outcome = "resolved"
        /\ ~store.isAuthenticated
        /\ ev'.kind \in {"login", "register", "initializeAuth"}
        /\ ev'.act # "start")
          => ~store'.isAuthenticated]_vars

\* C27: when no auth operation and no refresh call is in flight (and no
\* forced navigation is pending), isAuthenticated implies that an access
\* token or a refresh token is stored.
C27_AuthenticatedHasCredential ==
    (/\ store.isAuthenticated
     /\ ~loc.navPending
     /\ RefreshCalls = 0
     /\ \A o \in InFlight : o.kind \notin AuthKinds)
        => ~NoTokens

\* C28: when login() or register() ends with a failure result on its
\* profile fetch, the token pair that request was sent with (the pair the
\* operation obtained) is no longer stored.
C28_FailureLeavesNoTokens ==
    [][(/\ ev'.kind \in {"login", "register"}
        /\ ev'.result = "failure"
        /\ ev'.ep = "me")
          => \A o \in Gone :
                 /\ getAccessToken(ts').id # o.hdr
                 /\ getRefreshToken(ts').id # o.hdr]_vars

C30_Credential401NoRefresh ==
    [][(/\ ev'.act \in InterceptActs
        /\ ev'.ep \in {"login", "register"}
        /\ ev'.status = 401
        /\ \E p \in Gone : p.stage = "sent")
          => /\ ev'.act # "refreshSent"
             /\ RefreshCalls' = RefreshCalls
             /\ getRefreshToken(ts') = getRefreshToken(ts)
             /\ loc' = loc
             /\ ev'.kind = "login" => ev'.result = "failure"]_vars

\* C25: whenever initializeAuth, login, register or logout calls are
\* outstanding, eventually none is and isLoading is false.
C25_CallsResolve ==
    (InFlight # {}) ~> (InFlight = {} /\ ~store.isLoading)

====
